---- MODULE Spec2Model ----
(***************************************************************************)
(* A model of the RAG pipeline of src/utils.py, src/Chatbot.py and         *)
(* src/Fastapi.py: the paragraph-aware chunker (semantic_chunker), the     *)
(* embedding requester (generate_embeddings), the retrieval filter         *)
(* (retrieve_context, both variants) and the prompt assembly               *)
(* (query_ollama, test_rag_pipeline, ask_question).                        *)
(*                                                                         *)
(* A Python str is modelled as a sequence of atoms.  An atom is " " (any   *)
(* whitespace character other than a line break), "\n" (a line break) or a *)
(* piece of non-whitespace text.  str.split, str.strip and str.join only   *)
(* look at whether a character is whitespace, so they are modelled on the  *)
(* atoms as Python defines them on characters.                             *)
(***************************************************************************)
EXTENDS Integers, Sequences, FiniteSets, TLC

\* ------------------------------------------------------------------ bounds
MaxTextLen == 4      \* raw texts: every atom sequence up to this length
MaxWords == 6        \* rendered documents: up to this many words
MaxChunkSize == 4    \* chunk_size ranges over -NegRange..MaxChunkSize
MaxOverlap == 4      \* overlap ranges over -NegRange..MaxOverlap
NegRange == 1

\* A run of semantic_chunker that terminates emits at most one chunk per
\* consumed word, one per paragraph and a final one; the cap only stops the
\* runs that would go on for ever.
MaxChunks == 2 * MaxWords + 2

\* ------------------------------------------------- Python list/str helpers
Min(a, b) == IF a <= b THEN a ELSE b
Max(a, b) == IF a >= b THEN a ELSE b

\* The index a slice bound k denotes in a sequence of length n (0-based,
\* clamped): Python's rule for s[k:] and s[:k], negative k counting from the end.
PyIndex(k, n) == IF k < 0 THEN Max(n + k, 0) ELSE Min(k, n)

\* s[k:]
PySliceFrom(s, k) == SubSeq(s, PyIndex(k, Len(s)) + 1, Len(s))

\* s[:k]
PySliceTo(s, k) == SubSeq(s, 1, PyIndex(k, Len(s)))

\* s[a:b]
PySlice(s, a, b) == SubSeq(s, PyIndex(a, Len(s)) + 1, PyIndex(b, Len(s)))

IsSpace(c) == c \in {" ", "\n"}

\* str.split(sep) for a one-character separator: the pieces between the
\* separators, empty pieces included; never an empty list.
RECURSIVE SplitOn(_, _)
SplitOn(s, sep) ==
    IF \A i \in 1..Len(s) : s[i] # sep
    THEN <<s>>
    ELSE LET k == CHOOSE i \in 1..Len(s) :
                     s[i] = sep /\ \A j \in 1..(i - 1) : s[j] # sep
         IN  <<SubSeq(s, 1, k - 1)>> \o SplitOn(SubSeq(s, k + 1, Len(s)), sep)

RECURSIVE LStrip(_)
LStrip(s) == IF s # <<>> /\ IsSpace(Head(s)) THEN LStrip(Tail(s)) ELSE s

RECURSIVE RStrip(_)
RStrip(s) ==
    IF s # <<>> /\ IsSpace(s[Len(s)]) THEN RStrip(SubSeq(s, 1, Len(s) - 1)) ELSE s

\* str.strip()
Strip(s) == RStrip(LStrip(s))

\* str.split() with no argument: the maximal runs of non-whitespace.
RECURSIVE SplitWords(_)
SplitWords(s) ==
    LET t == LStrip(s) IN
    IF t = <<>>
    THEN <<>>
    ELSE LET k == CHOOSE i \in 1..(Len(t) + 1) :
                     /\ (i = Len(t) + 1 \/ IsSpace(t[i]))
                     /\ \A j \in 1..(i - 1) : ~IsSpace(t[j])
         IN  <<SubSeq(t, 1, k - 1)>> \o SplitWords(SubSeq(t, k, Len(t)))

\* sep.join(parts)
RECURSIVE Join(_, _)
Join(parts, sep) ==
    IF parts = <<>> THEN <<>>
    ELSE IF Len(parts) = 1 THEN parts[1]
    ELSE parts[1] \o sep \o Join(Tail(parts), sep)

\* [p.strip() for p in text.split('\n') if p.strip()]
RECURSIVE StripNonEmpty(_)
StripNonEmpty(ps) ==
    IF ps = <<>> THEN <<>>
    ELSE (IF Strip(Head(ps)) # <<>> THEN <<Strip(Head(ps))>> ELSE <<>>)
         \o StripNonEmpty(Tail(ps))

Paragraphs(t) == StripNonEmpty(SplitOn(t, "\n"))

\* --------------------------------------------------------------- the state
VARIABLES
    pc,              \* where semantic_chunker is
    text, chunk_size, overlap,            \* its arguments
    chunks, paragraphs, para_idx,         \* its locals
    current_chunk, current_length, para_words,
    e_pc,            \* where generate_embeddings is
    texts, batch_size,                    \* its arguments
    range_i, batch, batch_pos,            \* its loops: i, batch, the place in batch
    batch_embeddings, all_embeddings,     \* its locals
    calls,           \* the log of ollama_client.embeddings calls
    r_pc,            \* where the chat program / request handler is
    entry,           \* which entry point runs
    score_threshold, \* config["score_threshold"]
    query,           \* the question
    search_ok,       \* whether the embedding and index calls returned
    hits,            \* results[0]
    hit_idx, relevant_chunks,             \* the filter loop of Chatbot.py
    retrieved,       \* what retrieve_context returned (or the caller passed)
    context,         \* the context the prompt is built from
    prompt,          \* the last prompt submitted to the chat model
    response         \* what the caller got back

chunkVars == <<pc, text, chunk_size, overlap, chunks, paragraphs, para_idx,
               current_chunk, current_length, para_words>>

embedVars == <<e_pc, texts, batch_size, range_i, batch, batch_pos,
               batch_embeddings, all_embeddings, calls>>

ragVars == <<r_pc, entry, score_threshold, query, search_ok, hits, hit_idx,
             relevant_chunks, retrieved, context, prompt, response>>

vars == <<chunkVars, embedVars, ragVars>>

\* ------------------------------------------------------------ chunker input
Alphabet == {"a", "b", " ", "\n"}

RawTexts == UNION {[1..n -> Alphabet] : n \in 0..MaxTextLen}

\* The i-th word over {a, b}: a, b, aa, ab, ba, bb, aaa, ...
RECURSIVE Word(_)
Word(i) ==
    IF i <= 2 THEN <<IF i = 1 THEN "a" ELSE "b">>
    ELSE Word((i - 1) \div 2) \o <<IF i % 2 = 1 THEN "a" ELSE "b">>

\* A document of n distinct words whose paragraph breaks are the positions
\* in brk: word i is followed by "\n" when i \in brk and by " " otherwise.
RECURSIVE Render(_, _, _)
Render(i, n, brk) ==
    IF i > n THEN <<>>
    ELSE Word(i)
         \o (IF i = n THEN <<>> ELSE IF i \in brk THEN <<"\n">> ELSE <<" ">>)
         \o Render(i + 1, n, brk)

RenderedTexts ==
    {Render(1, n, brk) : n \in 1..MaxWords, brk \in SUBSET (1..(MaxWords - 1))}

\* The example of the specification's section 8.
ExampleText ==
    <<"Paragraph", " ", "one", " ", "has", " ", "six", " ", "words.", "\n",
      "Second", " ", "paragraph", " ", "has", " ", "five.">>

\* ----------------------------------------------------------- the chunker
\* mutant: the test is strict
FitsStrict(length, count, size) == length + count < size

\* Case 1's test
Fits(length, count, size) == length + count <= size

\* mutant: one word more than overlap is kept
KeepOverlapLong(chunk, ov) == PySliceFrom(chunk, 0 - ov - 1)

\* current_chunk[-overlap:]
KeepOverlap(chunk, ov) == PySliceFrom(chunk, 0 - ov)

\* mutant: off by one
RemainingOffByOne(size, length) == size - length + 1

\* remaining = chunk_size - current_length
Remaining(size, length) == size - length

\* mutant: one word fewer is taken
TakeWordsShort(words, remaining) == PySliceTo(words, remaining - 1)

\* para_words[:remaining]
TakeWords(words, remaining) == PySliceTo(words, remaining)

\* mutant: one word more is dropped
RestWordsSkip(words, remaining) == PySliceFrom(words, remaining + 1)

\* para_words = para_words[remaining:]
RestWords(words, remaining) == PySliceFrom(words, remaining)

\* ' '.join(current_chunk)
ChunkText(words) == Join(words, <<" ">>)

ChunkInit ==
    /\ pc = "call"
    /\ \/ /\ text \in RawTexts \cup RenderedTexts
          /\ chunk_size \in (0 - NegRange)..MaxChunkSize
          /\ overlap \in (0 - NegRange)..MaxOverlap
       \/ /\ text = ExampleText
          /\ chunk_size = 6
          /\ overlap = 2
    /\ chunks = <<>>
    /\ paragraphs = <<>>
    /\ para_idx = 1
    /\ current_chunk = <<>>
    /\ current_length = 0
    /\ para_words = <<>>

\* lines 88-94
ChunkerEnter ==
    /\ pc = "call"
    /\ chunks' = <<>>
    /\ paragraphs' = Paragraphs(text)
    /\ para_idx' = 1
    /\ current_chunk' = <<>>
    /\ current_length' = 0
    /\ pc' = "for"
    /\ UNCHANGED <<text, chunk_size, overlap, para_words>>
    /\ UNCHANGED <<embedVars, ragVars>>

\* lines 96-110: the next paragraph; Case 1, or the flush before the split
ForParagraph ==
    /\ pc = "for"
    /\ para_idx <= Len(paragraphs)
    /\ LET words == SplitWords(paragraphs[para_idx])
           para_word_count == Len(words)
       IN  IF Fits(current_length, para_word_count, chunk_size)
           THEN /\ current_chunk' = current_chunk \o words
                /\ current_length' = current_length + para_word_count
                /\ para_words' = words
                /\ pc' = "for"
                /\ UNCHANGED chunks
           ELSE /\ IF current_chunk # <<>>
                   THEN /\ chunks' = Append(chunks, ChunkText(current_chunk))
                        /\ current_chunk' = KeepOverlap(current_chunk, overlap)
                        /\ current_length' = Len(KeepOverlap(current_chunk, overlap))
                   ELSE UNCHANGED <<chunks, current_chunk, current_length>>
                /\ para_words' = words
                /\ pc' = "while"
    /\ para_idx' = para_idx + 1
    /\ UNCHANGED <<text, chunk_size, overlap, paragraphs>>
    /\ UNCHANGED <<embedVars, ragVars>>

\* lines 112-121: one iteration of `while para_words`
WhileParaWords ==
    /\ pc = "while"
    /\ para_words # <<>>
    /\ Len(chunks) < MaxChunks
    /\ LET remaining == Remaining(chunk_size, current_length)
           extended == current_chunk \o TakeWords(para_words, remaining)
           length == current_length + remaining
       IN  /\ para_words' = RestWords(para_words, remaining)
           /\ IF length >= chunk_size
              THEN /\ chunks' = Append(chunks, ChunkText(extended))
                   /\ current_chunk' = KeepOverlap(extended, overlap)
                   /\ current_length' = Len(KeepOverlap(extended, overlap))
              ELSE /\ current_chunk' = extended
                   /\ current_length' = length
                   /\ UNCHANGED chunks
    /\ UNCHANGED <<pc, text, chunk_size, overlap, paragraphs, para_idx>>
    /\ UNCHANGED <<embedVars, ragVars>>

\* line 112: the loop's test fails, back to the for loop
WhileExit ==
    /\ pc = "while"
    /\ para_words = <<>>
    /\ pc' = "for"
    /\ UNCHANGED <<text, chunk_size, overlap, chunks, paragraphs, para_idx,
                   current_chunk, current_length, para_words>>
    /\ UNCHANGED <<embedVars, ragVars>>

\* lines 123-127
ChunkerReturn ==
    /\ pc = "for"
    /\ para_idx > Len(paragraphs)
    /\ chunks' = IF current_chunk # <<>>
                 THEN Append(chunks, ChunkText(current_chunk))
                 ELSE chunks
    /\ pc' = "done"
    /\ UNCHANGED <<text, chunk_size, overlap, paragraphs, para_idx,
                   current_chunk, current_length, para_words>>
    /\ UNCHANGED <<embedVars, ragVars>>

ChunkNext ==
    \/ ChunkerEnter
    \/ ForParagraph
    \/ WhileParaWords
    \/ WhileExit
    \/ ChunkerReturn

\* --------------------------------------------------- generate_embeddings
MaxTexts == 3        \* texts: up to this many
MaxBatch == 2        \* batch_size ranges over -NegRange..MaxBatch

TextIds == {"x", "y"}
Vectors == {"v1", "v2"}

TextLists == UNION {[1..n -> TextIds] : n \in 0..MaxTexts}

\* whether range(0, stop, step) yields the value at, step # 0
InRange(at, stop, step) == IF step > 0 THEN at < stop ELSE at > stop

\* mutant: the batch is one text short
BatchShort(ts, at, size) == PySlice(ts, at, at + size - 1)

\* batch = texts[i:i + batch_size]
Batch(ts, at, size) == PySlice(ts, at, at + size)

EmbedInit ==
    /\ e_pc = "call"
    /\ texts \in TextLists
    /\ batch_size \in (0 - NegRange)..MaxBatch
    /\ range_i = 0
    /\ batch = <<>>
    /\ batch_pos = 1
    /\ batch_embeddings = <<>>
    /\ all_embeddings = <<>>
    /\ calls = <<>>

\* lines 146-148: range(0, len(texts), batch_size) raises ValueError for a
\* step of zero, before any call is made
EmbedEnter ==
    /\ e_pc = "call"
    /\ all_embeddings' = <<>>
    /\ range_i' = 0
    /\ e_pc' = IF batch_size = 0 THEN "raised" ELSE "range"
    /\ UNCHANGED <<texts, batch_size, batch, batch_pos, batch_embeddings, calls>>
    /\ UNCHANGED <<chunkVars, ragVars>>

\* lines 148-150: the next batch, or line 162 when the range is exhausted
RangeNext ==
    /\ e_pc = "range"
    /\ IF InRange(range_i, Len(texts), batch_size)
       THEN /\ batch' = Batch(texts, range_i, batch_size)
            /\ batch_embeddings' = <<>>
            /\ batch_pos' = 1
            /\ e_pc' = "batch"
       ELSE /\ e_pc' = "done"
            /\ UNCHANGED <<batch, batch_embeddings, batch_pos>>
    /\ UNCHANGED <<texts, batch_size, range_i, all_embeddings, calls>>
    /\ UNCHANGED <<chunkVars, ragVars>>

\* lines 153-158: one call of ollama_client.embeddings; it answers with a
\* vector, or raises, and nothing in generate_embeddings catches that
EmbedText ==
    /\ e_pc = "batch"
    /\ batch_pos <= Len(batch)
    /\ \/ \E v \in Vectors :
            /\ calls' = Append(calls, [prompt |-> batch[batch_pos], ok |-> TRUE,
                                      embedding |-> v])
            /\ batch_embeddings' = Append(batch_embeddings, v)
            /\ batch_pos' = batch_pos + 1
            /\ UNCHANGED e_pc
       \/ /\ calls' = Append(calls, [prompt |-> batch[batch_pos], ok |-> FALSE,
                                    embedding |-> "none"])
          /\ e_pc' = "raised"
          /\ UNCHANGED <<batch_embeddings, batch_pos>>
    /\ UNCHANGED <<texts, batch_size, range_i, batch, all_embeddings>>
    /\ UNCHANGED <<chunkVars, ragVars>>

\* line 160, and the range's step
BatchDone ==
    /\ e_pc = "batch"
    /\ batch_pos > Len(batch)
    /\ all_embeddings' = all_embeddings \o batch_embeddings
    /\ range_i' = range_i + batch_size
    /\ e_pc' = "range"
    /\ UNCHANGED <<texts, batch_size, batch, batch_pos, batch_embeddings, calls>>
    /\ UNCHANGED <<chunkVars, ragVars>>

EmbedNext ==
    \/ EmbedEnter
    \/ RangeNext
    \/ EmbedText
    \/ BatchDone

\* ------------------------------------------ retrieval and prompt assembly
MaxHits == 2         \* hit lists: up to this many hits
MaxScore == 2        \* scores and the threshold range over 0..MaxScore

\* An optional str: None, or a str
None == [tag |-> "None", val |-> <<>>]
Str(s) == [tag |-> "str", val |-> s]

\* how an f-string renders a value: a str as itself, None as the text None
Format(v) == IF v.tag = "None" THEN <<"None">> ELSE v.val

\* Python's truth value of an optional str
Truthy(v) == v.tag = "str" /\ v.val # <<>>

Scores == 0..MaxScore
Hits == [distance : Scores, source : {"s1", "s2"}, text : {"t1", "t2"}]
HitLists == UNION {[1..n -> Hits] : n \in 0..MaxHits}
Queries == {"q1", "q2"}

NoPrompt == <<>>

\* f"SOURCE: {source}\n{text}"
FormatHit(hit) == <<"SOURCE: ", hit.source, "\n", hit.text>>

Separator == <<"\n\n---\n\n">>

\* mutant: a hit at the threshold is dropped
ChatbotKeepsStrict(hit, threshold) == hit.distance > threshold

\* Chatbot.py line 104
ChatbotKeeps(hit, threshold) == hit.distance >= threshold

\* Fastapi.py line 37
FastapiKeeps(hit, threshold) == hit.distance >= threshold

\* "\n\n---\n\n".join(relevant_chunks) if relevant_chunks else None
JoinOrNone(blocks) == IF blocks # <<>> THEN Str(Join(blocks, Separator)) ELSE None

\* Fastapi.py lines 34-38: the list comprehension
RECURSIVE FastapiRelevant(_, _)
FastapiRelevant(hs, threshold) ==
    IF hs = <<>> THEN <<>>
    ELSE (IF FastapiKeeps(Head(hs), threshold) THEN <<FormatHit(Head(hs))>> ELSE <<>>)
         \o FastapiRelevant(Tail(hs), threshold)

ChatbotPlaceholder == <<"No specific context provided">>
FastapiPlaceholder == <<"No context found">>

\* Chatbot.py lines 40-46
ChatbotPrompt(q, ctx) ==
    <<"Answer the question based only on the following context:\n    \n    ">>
    \o Format(ctx)
    \o <<"\n\n    Question: ", q, "\n    \n    Answer clearly and concisely.">>

\* Fastapi.py line 56
FastapiPrompt(q, ctx) == <<"Context: ">> \o Format(ctx) \o <<"\nQuestion: ", q>>

RagInit ==
    /\ entry \in {"test_rag_pipeline", "query_ollama", "ask_question"}
    /\ r_pc = "idle"
    /\ score_threshold \in Scores
    /\ query = "none"
    /\ search_ok = FALSE
    /\ hits = <<>>
    /\ hit_idx = 1
    /\ relevant_chunks = <<>>
    /\ retrieved = None
    /\ context = None
    /\ prompt = NoPrompt
    /\ response = "none"

\* Chatbot.py lines 122-126, get_user_input: a question, or quit.  The names
\* of the turn before are rebound in this one.
GetUserInput ==
    /\ entry = "test_rag_pipeline"
    /\ r_pc = "idle"
    /\ \/ \E q \in Queries : query' = q /\ r_pc' = "retrieve"
       \/ query' = "none" /\ r_pc' = "exit"
    /\ retrieved' = None
    /\ context' = None
    /\ prompt' = NoPrompt
    /\ response' = "none"
    /\ UNCHANGED <<entry, score_threshold, search_ok, hits, hit_idx,
                   relevant_chunks>>
    /\ UNCHANGED <<chunkVars, embedVars>>

\* Chatbot.py lines 82-102 and 111-113: the embedding and the search return
\* the hits, or one of them raises and retrieve_context returns None
ChatbotSearch ==
    /\ entry = "test_rag_pipeline"
    /\ r_pc = "retrieve"
    /\ \/ \E hs \in HitLists :
            /\ hits' = hs
            /\ search_ok' = TRUE
            /\ hit_idx' = 1
            /\ relevant_chunks' = <<>>
            /\ r_pc' = "filter"
            /\ UNCHANGED retrieved
       \/ /\ search_ok' = FALSE
          /\ retrieved' = None
          /\ r_pc' = "retrieved"
          /\ UNCHANGED <<hits, hit_idx, relevant_chunks>>
    /\ UNCHANGED <<entry, score_threshold, query, context, prompt, response>>
    /\ UNCHANGED <<chunkVars, embedVars>>

\* Chatbot.py lines 103-107: one iteration of `for hit in results[0]`
ChatbotFilterHit ==
    /\ entry = "test_rag_pipeline"
    /\ r_pc = "filter"
    /\ hit_idx <= Len(hits)
    /\ relevant_chunks' =
         IF ChatbotKeeps(hits[hit_idx], score_threshold)
         THEN Append(relevant_chunks, FormatHit(hits[hit_idx]))
         ELSE relevant_chunks
    /\ hit_idx' = hit_idx + 1
    /\ UNCHANGED <<r_pc, entry, score_threshold, query, search_ok, hits,
                   retrieved, context, prompt, response>>
    /\ UNCHANGED <<chunkVars, embedVars>>

\* Chatbot.py line 109
ChatbotFilterReturn ==
    /\ entry = "test_rag_pipeline"
    /\ r_pc = "filter"
    /\ hit_idx > Len(hits)
    /\ retrieved' = JoinOrNone(relevant_chunks)
    /\ r_pc' = "retrieved"
    /\ UNCHANGED <<entry, score_threshold, query, search_ok, hits, hit_idx,
                   relevant_chunks, context, prompt, response>>
    /\ UNCHANGED <<chunkVars, embedVars>>

\* Chatbot.py lines 129-131; retrieve_context has returned and its locals
\* are gone
ChatbotContext ==
    /\ entry = "test_rag_pipeline"
    /\ r_pc = "retrieved"
    /\ context' = IF ~Truthy(retrieved) THEN Str(ChatbotPlaceholder) ELSE retrieved
    /\ r_pc' = "query_ollama"
    /\ hits' = <<>>
    /\ hit_idx' = 1
    /\ relevant_chunks' = <<>>
    /\ UNCHANGED <<entry, score_threshold, query, search_ok, retrieved, prompt,
                   response>>
    /\ UNCHANGED <<chunkVars, embedVars>>

\* Chatbot.py line 27-30: query_ollama called on its own, context left at its
\* default of None or given
QueryOllamaCall ==
    /\ entry = "query_ollama"
    /\ r_pc = "idle"
    /\ \E q \in Queries : query' = q
    /\ \E c \in {None, Str(<<"SOURCE: ", "s1", "\n", "t1">>)} :
         /\ retrieved' = c
         /\ context' = c
    /\ r_pc' = "query_ollama"
    /\ prompt' = NoPrompt
    /\ response' = "none"
    /\ UNCHANGED <<entry, score_threshold, search_ok, hits, hit_idx,
                   relevant_chunks>>
    /\ UNCHANGED <<chunkVars, embedVars>>

\* Chatbot.py lines 40-62: the prompt, the chat call, the answer or the apology
QueryOllama ==
    /\ entry \in {"test_rag_pipeline", "query_ollama"}
    /\ r_pc = "query_ollama"
    /\ prompt' = ChatbotPrompt(query, context)
    /\ response' \in {"answer", "Sorry, I encountered an error"}
    /\ r_pc' = "idle"
    /\ UNCHANGED <<entry, score_threshold, query, search_ok, hits, hit_idx,
                   relevant_chunks, retrieved, context>>
    /\ UNCHANGED <<chunkVars, embedVars>>

\* Fastapi.py lines 18-44: retrieve_context of the request handler
FastapiRetrieve ==
    /\ entry = "ask_question"
    /\ r_pc = "idle"
    /\ \E q \in Queries : query' = q
    /\ \/ \E hs \in HitLists :
            /\ hits' = hs
            /\ search_ok' = TRUE
            /\ retrieved' = JoinOrNone(FastapiRelevant(hs, score_threshold))
       \/ /\ search_ok' = FALSE
          /\ retrieved' = None
          /\ UNCHANGED hits
    /\ r_pc' = "retrieved"
    /\ context' = None
    /\ prompt' = NoPrompt
    /\ response' = "none"
    /\ UNCHANGED <<entry, score_threshold, hit_idx, relevant_chunks>>
    /\ UNCHANGED <<chunkVars, embedVars>>

\* Fastapi.py lines 50-64: `or "No context found"`, the prompt, the chat call
AskQuestion ==
    /\ entry = "ask_question"
    /\ r_pc = "retrieved"
    /\ LET ctx == IF Truthy(retrieved) THEN retrieved ELSE Str(FastapiPlaceholder)
       IN  /\ context' = ctx
           /\ prompt' = FastapiPrompt(query, ctx)
    /\ response' \in {"answer", "HTTP 500"}
    /\ r_pc' = "idle"
    /\ hits' = <<>>
    /\ UNCHANGED <<entry, score_threshold, query, search_ok, hit_idx,
                   relevant_chunks, retrieved>>
    /\ UNCHANGED <<chunkVars, embedVars>>

RagNext ==
    \/ GetUserInput
    \/ ChatbotSearch
    \/ ChatbotFilterHit
    \/ ChatbotFilterReturn
    \/ ChatbotContext
    \/ QueryOllamaCall
    \/ QueryOllama
    \/ FastapiRetrieve
    \/ AskQuestion

\* ------------------------------------------------------ the specifications
\* Each specification runs one component; the other two stay as constructed.
ChunkIdle ==
    /\ pc = "idle"
    /\ text = <<>>
    /\ chunk_size = 0
    /\ overlap = 0
    /\ chunks = <<>>
    /\ paragraphs = <<>>
    /\ para_idx = 1
    /\ current_chunk = <<>>
    /\ current_length = 0
    /\ para_words = <<>>

EmbedIdle ==
    /\ e_pc = "idle"
    /\ texts = <<>>
    /\ batch_size = 0
    /\ range_i = 0
    /\ batch = <<>>
    /\ batch_pos = 1
    /\ batch_embeddings = <<>>
    /\ all_embeddings = <<>>
    /\ calls = <<>>

RagIdle ==
    /\ r_pc = "off"
    /\ entry = "none"
    /\ score_threshold = 0
    /\ query = "none"
    /\ search_ok = FALSE
    /\ hits = <<>>
    /\ hit_idx = 1
    /\ relevant_chunks = <<>>
    /\ retrieved = None
    /\ context = None
    /\ prompt = NoPrompt
    /\ response = "none"

Init == ChunkInit /\ EmbedIdle /\ RagIdle
Next == ChunkNext
Spec == Init /\ [][Next]_vars

EmbedSpecInit == ChunkIdle /\ EmbedInit /\ RagIdle
EmbedSpecNext == EmbedNext
EmbedSpec == EmbedSpecInit /\ [][EmbedSpecNext]_vars

RagSpecInit == ChunkIdle /\ EmbedIdle /\ RagInit
RagSpecNext == RagNext
RagSpec == RagSpecInit /\ [][RagSpecNext]_vars

\* ------------------------------------------- properties: semantic_chunker
ValidParams == chunk_size >= 1 /\ 0 < overlap /\ overlap < chunk_size

\* the whitespace-delimited words of a chunk
ChunkWords(k) == SplitWords(chunks[k])

\* the document's words: text.split()
DocWords == SplitWords(text)

LastWords(ws, n) == SubSeq(ws, Len(ws) - Min(n, Len(ws)) + 1, Len(ws))
FirstWords(ws, n) == SubSeq(ws, 1, Min(n, Len(ws)))

\* C1: with chunk_size >= 1 and 0 < overlap < chunk_size, every chunk emitted
\* has at most chunk_size words, and so has the accumulator at every point.
C1_ChunksWithinSize ==
    ValidParams =>
        /\ \A k \in 1..Len(chunks) : Len(ChunkWords(k)) <= chunk_size
        /\ Len(current_chunk) <= chunk_size

C1_Witness ==
    /\ pc = "done"
    /\ ValidParams
    /\ Len(paragraphs) >= 2
    /\ Len(chunks) >= 3
    /\ \E k \in 1..Len(chunks) : Len(ChunkWords(k)) = chunk_size

\* C2 as stated: with overlap > 0 and more than one chunk returned, the last
\* `overlap` words of each chunk are the first `overlap` words of the next.
C2_LastOverlapWordsRepeat ==
    (pc = "done" /\ overlap > 0 /\ Len(chunks) > 1) =>
        \A k \in 1..(Len(chunks) - 1) :
            LastWords(ChunkWords(k), overlap) = FirstWords(ChunkWords(k + 1), overlap)

\* C2 amended: with overlap > 0, the last m words of each chunk are the first
\* m words of the next, m the smaller of overlap and the chunk's word count.
C2_TailRepeats ==
    overlap > 0 =>
        \A k \in 1..(Len(chunks) - 1) :
            LET m == Min(overlap, Len(ChunkWords(k)))
            IN  /\ Len(ChunkWords(k + 1)) >= m
                /\ LastWords(ChunkWords(k), m) = FirstWords(ChunkWords(k + 1), m)

C2_Witness ==
    /\ pc = "done"
    /\ overlap > 1
    /\ Len(chunks) >= 3
    /\ Len(ChunkWords(1)) < overlap
    /\ Len(ChunkWords(2)) > overlap

InvalidConfig == overlap >= chunk_size \/ chunk_size <= 0

\* C3 as stated: a document of at most chunk_size words is returned as
\* exactly one chunk, its words joined by single spaces (checked here for
\* the parameter pairs with chunk_size >= 1 and overlap < chunk_size only).
C3_SmallDocumentOneChunk ==
    (pc = "done" /\ ~InvalidConfig /\ Len(DocWords) <= chunk_size) =>
        chunks = <<Join(DocWords, <<" ">>)>>

\* C3 amended: a document of at least one and at most chunk_size words is
\* returned as exactly one chunk, its words joined by single spaces; a
\* document of no words is returned as no chunk.
C3_SmallDocument ==
    (pc = "done" /\ Len(DocWords) <= chunk_size) =>
        IF DocWords = <<>>
        THEN chunks = <<>>
        ELSE chunks = <<Join(DocWords, <<" ">>)>>

C3_Witness ==
    /\ pc = "done"
    /\ Len(paragraphs) >= 2
    /\ Len(DocWords) = chunk_size
    /\ Len(chunks) = 1

ExampleRun == text = ExampleText /\ chunk_size = 6 /\ overlap = 2

\* C4 as stated: on the example the first chunk is filled up to six words
\* with the second paragraph's first word, and the second chunk starts with
\* "words. Second".
C4_ExampleFilledFirst ==
    (ExampleRun /\ pc = "done") =>
        /\ Len(chunks) >= 2
        /\ chunks[1] = <<"Paragraph", " ", "one", " ", "has", " ", "six", " ",
                         "words.", " ", "Second">>
        /\ FirstWords(ChunkWords(2), 2) = << <<"words.">>, <<"Second">> >>

\* C4 amended: on the example the first chunk is the first paragraph as it
\* stands (five words), emitted before any word of the second paragraph is
\* added; the second chunk is the last two words of the first, "six words.",
\* followed by the four words of the second paragraph.
C4_ExampleFlushedFirst ==
    (ExampleRun /\ pc = "done") =>
        /\ Len(chunks) >= 2
        /\ chunks[1] = <<"Paragraph", " ", "one", " ", "has", " ", "six", " ",
                         "words.">>
        /\ chunks[2] = <<"six", " ", "words.", " ", "Second", " ", "paragraph",
                         " ", "has", " ", "five.">>

C4_Witness == ExampleRun /\ pc = "done" /\ Len(chunks) = 3

\* C6: with overlap >= chunk_size or chunk_size <= 0 the call is rejected:
\* it never returns a chunk list.
C6_InvalidConfigRejected == InvalidConfig => pc # "done"

\* what is left of chunk k once the words it repeats are removed
NewWords(k) ==
    IF k = 1 THEN ChunkWords(1)
    ELSE SubSeq(ChunkWords(k), Min(overlap, Len(ChunkWords(k - 1))) + 1,
                Len(ChunkWords(k)))

RECURSIVE Reassembled(_)
Reassembled(n) == IF n = 0 THEN <<>> ELSE Reassembled(n - 1) \o NewWords(n)

\* C9: with chunk_size >= 1 and 0 < overlap < chunk_size, the returned
\* chunks, each without the words it repeats from the chunk before, make up
\* the document's word sequence: no word lost, doubled or out of order.
C9_WordsPreserved ==
    (pc = "done" /\ ValidParams) => Reassembled(Len(chunks)) = DocWords

C9_Witness ==
    /\ pc = "done"
    /\ ValidParams
    /\ Len(paragraphs) >= 2
    /\ Len(chunks) >= 4
    /\ Len(DocWords) >= 5

TerminatingParams == chunk_size >= 1 /\ 0 <= overlap /\ overlap < chunk_size

\* C10: with chunk_size >= 1 and 0 <= overlap < chunk_size, every iteration
\* of the while loop removes at least one word from para_words.
C10_WhileConsumes ==
    [][(pc = "while" /\ para_words # <<>> /\ TerminatingParams)
          => Len(para_words') < Len(para_words)]_vars

\* ---------------------------------------- properties: generate_embeddings
AllCallsOk == \A k \in 1..Len(calls) : calls[k].ok

OneVectorPerText ==
    /\ Len(all_embeddings) = Len(texts)
    /\ Len(calls) = Len(texts)
    /\ \A k \in 1..Len(texts) :
         /\ calls[k].prompt = texts[k]
         /\ all_embeddings[k] = calls[k].embedding

EmbedContract ==
    /\ (e_pc \in {"done", "raised"} /\ AllCallsOk) =>
           (e_pc = "done" /\ OneVectorPerText)
    /\ ~AllCallsOk => e_pc = "raised"

\* C7 as stated: for every batch_size, when every call succeeds the list
\* returned has the service's vector for texts[i] at position i, one call per
\* text in order; when a call fails the operation fails.
C7_EmbedAnyBatchSize == EmbedContract

\* C7 amended: the same, for every batch_size >= 1.
C7_EmbedPositiveBatchSize == batch_size >= 1 => EmbedContract

C7_Witness ==
    /\ e_pc = "done"
    /\ batch_size >= 2
    /\ Len(texts) > batch_size
    /\ Len(texts) % batch_size # 0
    /\ texts[1] # texts[2]
    /\ all_embeddings[1] # all_embeddings[2]

\* ------------------------------------- properties: retrieval and prompts
\* the reference of the filter: the first n hits, kept ones joined as they come
RECURSIVE RefJoined(_, _, _)
RefJoined(hs, threshold, n) ==
    IF n = 0 THEN <<>>
    ELSE LET before == RefJoined(hs, threshold, n - 1)
             block == <<"SOURCE: ", hs[n].source, "\n", hs[n].text>>
         IN  IF hs[n].distance < threshold THEN before
             ELSE IF before = <<>> THEN block
             ELSE before \o <<"\n\n---\n\n">> \o block

RefContext(hs, threshold) ==
    IF \A k \in 1..Len(hs) : hs[k].distance < threshold
    THEN None
    ELSE Str(RefJoined(hs, threshold, Len(hs)))

\* C5: retrieve_context of Chatbot.py and of Fastapi.py return, for the hits
\* the index gave, the blocks of exactly the hits with score >= threshold, in
\* the index's order, joined by the separator, and None when none is kept.
C5_FilterMatchesReference ==
    (r_pc = "retrieved" /\ search_ok) =>
        retrieved = RefContext(hits, score_threshold)

C5_Witness ==
    /\ r_pc = "retrieved"
    /\ search_ok
    /\ entry = "test_rag_pipeline"
    /\ Len(hits) >= 2
    /\ hits[1].distance = score_threshold
    /\ hits[2].distance > score_threshold
    /\ hits[1].source # hits[2].source

\* the context section of a submitted prompt
ContextSection(p) ==
    IF Head(p) = "Context: "
    THEN SubSeq(p, 2, Len(p) - 2)
    ELSE SubSeq(p, 2, Len(p) - 3)

Placeholder == IF entry = "ask_question" THEN FastapiPlaceholder ELSE ChatbotPlaceholder

\* C8: the context section of every prompt submitted to the chat model is
\* the retrieved context, or the placeholder sentence when the context is
\* absent; never the absent value itself.
C8_ContextNeverAbsent ==
    prompt # NoPrompt =>
        ContextSection(prompt) =
            IF retrieved.tag = "str" THEN retrieved.val ELSE Placeholder

====
